---------------------------- MODULE Spec2Model ----------------------------
(***************************************************************************)
(* A model of the mumbo-lang lexer (src/src/lexer.rs and                   *)
(* src/src/lexer/lexer_impls/*.rs).                                        *)
(*                                                                         *)
(* A lexer value is a record                                               *)
(*   [source, start, index, literal, line, column, ub]                     *)
(* with the fields of struct Lexer and one more, ub, which is not in the   *)
(* code: it records that an unchecked primitive has been executed on the   *)
(* value with its safety precondition broken, which is undefined behaviour *)
(* and from where on the other fields mean nothing.                        *)
(* Bytes are integers 0..255, offsets are                                  *)
(* 0-based as in the code, so the byte at offset i is source[i + 1].       *)
(* literal is the Option<&[u8]> slot: a (pointer, length) pair into the    *)
(* source, modelled as the half-open offset range [lo, hi).                *)
(***************************************************************************)
EXTENDS Integers, Sequences, FiniteSets, TLC

VARIABLES
    lexer,      \* the Lexer value the caller owns
    ret,        \* what the last call on lexer returned
    pre,        \* lexer as it was when the last call was made
    lexed,      \* the last lex_single_token call on lexer: what it returned,
                \* the offset of its first significant byte, the index after,
                \* the literal slot as it found it
    taken,      \* extract_literal calls on lexer since then (2: two or more)
    eofSeen,    \* a lex_single_token call on lexer has returned Eof
    preEof,     \* eofSeen as it was when the last call was made
    clone,      \* a second Lexer value made by Clone::clone (or NoLexer)
    cret,       \* what the last call on clone returned
    shared,     \* the literal range both values held pending at the clone
    sharedTaken, \* how many extract_literal calls returned that literal
    noneSeen,   \* a next() call on lexer has returned None
    preNone,    \* noneSeen as it was when the last call was made
    results     \* how many lex_single_token calls on lexer gave a token or
                \* an error other than Eof

vars == <<lexer, ret, pre, lexed, taken, eofSeen, preEof,
          clone, cret, shared, sharedTaken, noneSeen, preNone, results>>

---------------------------------------------------------------------------
(* Bytes.                                                                  *)

\* The printable ASCII characters in code order, starting at 0x20 (the
\* grave accent 0x60 is spelled out).
Printable ==
    << " ", "!", "\"", "#", "$", "%", "&", "'", "(", ")", "*", "+", ",", "-",
       ".", "/", "0", "1", "2", "3", "4", "5", "6", "7", "8", "9", ":", ";",
       "<", "=", ">", "?", "@", "A", "B", "C", "D", "E", "F", "G", "H", "I",
       "J", "K", "L", "M", "N", "O", "P", "Q", "R", "S", "T", "U", "V", "W",
       "X", "Y", "Z", "[", "\\", "]", "^", "_", "grave", "a", "b", "c", "d", "e",
       "f", "g", "h", "i", "j", "k", "l", "m", "n", "o", "p", "q", "r", "s",
       "t", "u", "v", "w", "x", "y", "z", "{", "|", "}", "~" >>

\* The code of each printable ASCII character.
Code ==
    [c \in {Printable[i] : i \in 1..Len(Printable)} |->
        31 + (CHOOSE i \in 1..Len(Printable) : Printable[i] = c)]

\* b'c' : the byte of a printable ASCII character.
B(c) == Code[c]

\* b"..." : the bytes of a string given as a tuple of characters.
Str(t) == [i \in 1..Len(t) |-> B(t[i])]

TAB == 9
LF == 10
CR == 13

\* Option<u8>::None (bytes are 0..255).
None == -1

SP == B(" ")
BANG == B("!")
DQUOTE == B("\"")
PERCENT == B("%")
AMP == B("&")
SQUOTE == B("'")
LPAREN == B("(")
RPAREN == B(")")
STAR == B("*")
PLUS == B("+")
COMMA == B(",")
MINUS == B("-")
DOT == B(".")
SLASH == B("/")
ZERO == B("0")
NINE == B("9")
COLON == B(":")
SEMI == B(";")
LT == B("<")
EQ == B("=")
GT == B(">")
LBRACKET == B("[")
BACKSLASH == B("\\")
RBRACKET == B("]")
CARET == B("^")
UNDERSCORE == B("_")
LBRACE == B("{")
PIPE == B("|")
RBRACE == B("}")

---------------------------------------------------------------------------
(* Results: LexerResult<Token> and LexerResult<&[u8]>.                     *)

NoLit == [some |-> FALSE, lo |-> 0, hi |-> 0]
SomeLit(lo, hi) == [some |-> TRUE, lo |-> lo, hi |-> hi]

\* Ok(token)
Ok(t) == [ok |-> TRUE, tok |-> t, err |-> "-", msg |-> "-", lit |-> NoLit]
\* Err(e) for the payload-free errors
Err(e) == [ok |-> FALSE, tok |-> "-", err |-> e, msg |-> "-", lit |-> NoLit]
\* Err(LexerError::UnexpectedEofWhile(token))
UnexpectedEofWhile(t) ==
    [ok |-> FALSE, tok |-> t, err |-> "UnexpectedEofWhile", msg |-> "-", lit |-> NoLit]
\* Err(LexerError::WithMessage(message))
WithMessage(m) ==
    [ok |-> FALSE, tok |-> "-", err |-> "WithMessage", msg |-> m, lit |-> NoLit]
\* Ok(slice)
OkLit(lit) == [ok |-> TRUE, tok |-> "-", err |-> "-", msg |-> "-", lit |-> lit]

\* A sub-lexer's outcome: the lexer it leaves and the value it returns.
Out(l, r) == [l |-> l, r |-> r]

---------------------------------------------------------------------------
(* Byte-level traversal (src/src/lexer/lexer_impls.rs).                    *)

SourceLen(l) == Len(l.source)

is_at_end(l) == l.index >= SourceLen(l)

\* What a read at an offset that is not in the source gives: no byte.
PastEnd == 256

\* Precondition: ~is_at_end(l).
peek_unchecked(l) == IF is_at_end(l) THEN PastEnd ELSE l.source[l.index + 1]

\* The lexer as peek_unchecked leaves it: as it was, with ub set if the
\* precondition (assert_unchecked(!self.is_at_end())) did not hold.
peeked_unchecked(l) == IF is_at_end(l) THEN [l EXCEPT !.ub = TRUE] ELSE l

peek(l) == IF is_at_end(l) THEN None ELSE peek_unchecked(l)

\* advance_unchecked that counts a newline as any other byte.
advance_unchecked_same_line(l) ==
    LET p == peeked_unchecked(l) IN
    [p EXCEPT !.index = @ + 1, !.column = @ + 1]

\* Precondition: ~is_at_end(l).  The byte returned is peek_unchecked(l).
advance_unchecked(l) ==
    LET byte == peek_unchecked(l)
        p == peeked_unchecked(l)
    IN
    IF byte = LF
    THEN [p EXCEPT !.index = @ + 1, !.line = @ + 1, !.column = 1]
    ELSE [p EXCEPT !.index = @ + 1, !.column = @ + 1]

\* Precondition: l.index + 1 < SourceLen(l).
peek_next_unchecked(l) == l.source[l.index + 2]

peek_next(l) ==
    IF l.index + 1 >= SourceLen(l) THEN None ELSE peek_next_unchecked(l)

\* A slice that is one byte too long.
slice_here_inclusive(l) == SomeLit(l.start, l.index + 1)

\* source[start..index] as a (pointer, length) pair.
slice_here(l) == SomeLit(l.start, l.index)

\* Precondition: 0 < l.index <= len.  The byte returned is the one stepped
\* back over.
backtrack_unchecked(l) ==
    IF l.index <= 0 \/ l.index > SourceLen(l) THEN [l EXCEPT !.ub = TRUE]
    ELSE LET byte == l.source[l.index] IN
         IF byte = LF
         THEN [l EXCEPT !.index = @ - 1, !.line = @ - 1, !.column = 1]
         ELSE [l EXCEPT !.index = @ - 1]

\* The bytes a literal range denotes.
Bytes(src, lit) == SubSeq(src, lit.lo + 1, lit.hi)

---------------------------------------------------------------------------
(* Classifiers.                                                            *)

\* lexer_impls::skip_whitespace::is_whitespace
is_whitespace(byte) == byte \in {SP, CR, TAB, LF}

\* lexer_impls::numbers::is_valid_digit : a decimal digit.
is_valid_digit(byte) == ZERO <= byte /\ byte <= NINE

\* A head test that lost its upper bounds.
is_valid_identifier_head_open(byte) == byte >= B("A")

is_valid_identifier_head(byte) ==
    \/ B("a") <= byte /\ byte <= B("z")
    \/ B("A") <= byte /\ byte <= B("Z")
    \/ byte = UNDERSCORE

\* A tail test that forgot the digits.
is_valid_identifier_tail_no_digit(byte) ==
    \/ B("a") <= byte /\ byte <= B("z")
    \/ B("A") <= byte /\ byte <= B("Z")
    \/ byte = UNDERSCORE

is_valid_identifier_tail(byte) ==
    \/ B("a") <= byte /\ byte <= B("z")
    \/ B("A") <= byte /\ byte <= B("Z")
    \/ byte = UNDERSCORE
    \/ ZERO <= byte /\ byte <= NINE

\* Token::is_identifier_extractable : true for the five literal kinds.
LiteralKinds == {"LitIdentifier", "LitInteger", "LitFloat", "LitStr", "LitChar"}

is_identifier_extractable(tok) == tok \in LiteralKinds

---------------------------------------------------------------------------
(* Whitespace and comments (lexer_impls/skip_whitespace.rs).               *)

\* The inner loop: consume up to, not including, the next newline.
RECURSIVE skip_comment_body(_)
skip_comment_body(l) ==
    IF is_at_end(l) THEN l
    ELSE LET p == peeked_unchecked(l) IN
         IF peek_unchecked(l) # LF THEN skip_comment_body(advance_unchecked(p))
         ELSE p

\* A loop that takes any slash for the start of a comment.
RECURSIVE skip_whitespace_impl_any_slash(_)
skip_whitespace_impl_any_slash(l) ==
    IF is_at_end(l) THEN l
    ELSE LET next == peek_unchecked(l) IN
         IF is_whitespace(next) THEN skip_whitespace_impl_any_slash(advance_unchecked(l))
         ELSE IF next = SLASH
         THEN skip_whitespace_impl_any_slash(skip_comment_body(advance_unchecked(l)))
         ELSE l

RECURSIVE skip_whitespace_impl(_)
skip_whitespace_impl(l) ==
    IF is_at_end(l) THEN l
    ELSE LET next == peek_unchecked(l)
             p == peeked_unchecked(l)
         IN
         IF is_whitespace(next) THEN skip_whitespace_impl(advance_unchecked(p))
         ELSE IF next = SLASH
         THEN IF peek_next(p) = SLASH
              THEN skip_whitespace_impl(
                       skip_comment_body(advance_unchecked(advance_unchecked(p))))
              ELSE p
         ELSE p

skip_whitespace(l) == skip_whitespace_impl(l)

---------------------------------------------------------------------------
(* Keywords (lexer_impls/identifiers.rs).  A slice s is a byte sequence;   *)
(* the code's offsets into it are 0-based.                                 *)

const_index(s, index) == IF index >= Len(s) THEN None ELSE s[index + 1]

\* None is modelled as the sequence <<None>>, which no byte slice equals.
const_subslice(s, start, end) ==
    IF start > end \/ end > Len(s) THEN <<None>> ELSE SubSeq(s, start + 1, end)

const_slice_eq(s1, s2) ==
    IF Len(s1) # Len(s2) THEN FALSE
    ELSE \A index \in 1..Len(s1) : s1[index] = s2[index]

identifier_check_rest(s, start, rest, token) ==
    LET ss == const_subslice(s, start, Len(s)) IN
    IF ss = <<None>> THEN "LitIdentifier"
    ELSE IF const_slice_eq(ss, rest) THEN token ELSE "LitIdentifier"

\* The trie: the token a scanned identifier slice s (Len(s) >= 1) stands for.
identifier_token(s) ==
    LET c0 == s[1]
        c1 == const_index(s, 1)
        c2 == const_index(s, 2)
        c3 == const_index(s, 3)
    IN
    CASE c0 = B("l") -> identifier_check_rest(s, 1, Str(<<"e","t">>), "KwLet")
      [] c0 = B("f") -> identifier_check_rest(s, 1, Str(<<"n">>), "KwFn")
      [] c0 = B("r") ->
            CASE c1 = None -> "LitIdentifier"
              [] c1 = B("e") ->
                    identifier_check_rest(s, 2, Str(<<"t","u","r","n">>), "KwReturn")
              [] c1 = B("u") ->
                    identifier_check_rest(s, 2, Str(<<"n","t","i","m","e">>), "KwRuntime")
              [] OTHER -> "LitIdentifier"
      [] c0 = B("e") ->
            CASE c1 = None -> "LitIdentifier"
              [] c1 = B("x") ->
                    identifier_check_rest(s, 2, Str(<<"t","e","r","n">>), "KwExtern")
              [] c1 = B("n") ->
                    identifier_check_rest(s, 2, Str(<<"u","m">>), "KwAdtEnum")
              [] OTHER -> "LitIdentifier"
      [] c0 = B("c") ->
            CASE c1 = None -> "LitIdentifier"
              [] c1 = B("o") ->
                    CASE c2 = None -> "LitIdentifier"
                      [] c2 = B("n") ->
                            identifier_check_rest(s, 3, Str(<<"s","t">>), "KwConst")
                      [] c2 = B("m") ->
                            identifier_check_rest(
                                s, 3, Str(<<"p","i","l","e","t","i","m","e">>),
                                "KwCompiletime")
                      [] OTHER -> "LitIdentifier"
              [] c1 = B("a") ->
                    identifier_check_rest(s, 2, Str(<<"s","t">>), "KwCast")
              [] OTHER -> "LitIdentifier"
      [] c0 = B("m") -> identifier_check_rest(s, 1, Str(<<"u","t">>), "KwMut")
      [] c0 = B("a") ->
            identifier_check_rest(s, 1, Str(<<"n","y","m","u","t">>), "KwAnymut")
      [] c0 = B("s") ->
            CASE c1 = None -> "LitIdentifier"
              [] c1 = B("t") ->
                    CASE c2 = None -> "LitIdentifier"
                      [] c2 = B("a") ->
                            identifier_check_rest(s, 3, Str(<<"t","i","c">>), "KwStatic")
                      [] c2 = B("r") ->
                            identifier_check_rest(s, 3, Str(<<"u","c","t">>), "KwAdtStruct")
                      [] OTHER -> "LitIdentifier"
              [] OTHER -> "LitIdentifier"
      [] c0 = B("t") ->
            identifier_check_rest(s, 1, Str(<<"y","p","e">>), "KwType")
      [] c0 = B("u") ->
            CASE c1 = None -> "LitIdentifier"
              [] c1 = B("n") ->
                    CASE c2 = None -> "LitIdentifier"
                      [] c2 = B("i") ->
                            CASE c3 = None -> "LitIdentifier"
                              [] c3 = B("n") ->
                                    identifier_check_rest(
                                        s, 4, Str(<<"i","t">>), "LitUninit")
                              [] c3 = B("o") ->
                                    identifier_check_rest(
                                        s, 4, Str(<<"n">>), "KwAdtUnion")
                              [] OTHER -> "LitIdentifier"
                      [] OTHER -> "LitIdentifier"
              [] OTHER -> "LitIdentifier"
      [] OTHER -> "LitIdentifier"

\* check_identifier_actual_token(lexer, s), s being the range lit of
\* l.source: the token, and the lexer with the literal slot set when the
\* token is extractable.
check_identifier_actual_token(l, lit) ==
    LET r == identifier_token(Bytes(l.source, lit)) IN
    Out(IF is_identifier_extractable(r) THEN [l EXCEPT !.literal = lit] ELSE l, r)

---------------------------------------------------------------------------
(* Sub-lexers (lexer_impls/high_level.rs).  Each is entered with the first *)
(* byte of the token consumed: l.index = l.start + 1.                      *)

\* The scanning loop of lex_identifier.
RECURSIVE identifier_tail(_)
identifier_tail(l) ==
    IF is_at_end(l) THEN l
    ELSE LET p == peeked_unchecked(l) IN
         IF is_valid_identifier_tail(peek_unchecked(l))
         THEN identifier_tail(advance_unchecked(p))
         ELSE p

lex_identifier(l) ==
    LET l1 == identifier_tail(l)
        slice == slice_here(l1)
        c == check_identifier_actual_token(l1, slice)
    IN
    IF is_identifier_extractable(c.r)
    THEN Out([c.l EXCEPT !.literal = slice], Ok(c.r))
    ELSE Out(c.l, Ok(c.r))

\* The escapes lex_quoted_string allows.
StringEscapes == {DQUOTE, B("t"), B("n"), B("r"), BACKSLASH, ZERO}

\* The escapes lex_character_literal allows.
CharEscapes == {SQUOTE, B("t"), B("n"), B("r"), BACKSLASH, ZERO}

\* A recovery loop that stops at the first quote, escaped or not.
RECURSIVE string_recover_plain(_)
string_recover_plain(l) ==
    IF is_at_end(l) THEN [l |-> l, eof |-> FALSE]
    ELSE LET byte == peek_unchecked(l)
             l1 == advance_unchecked(l)
         IN
         IF byte = DQUOTE THEN [l |-> backtrack_unchecked(l1), eof |-> FALSE]
         ELSE string_recover_plain(l1)

\* The recovery loop of lex_quoted_string after an invalid escape.  eof is
\* TRUE when the loop returned UnexpectedEofWhile from inside (a backslash
\* was the last byte).
RECURSIVE string_recover(_)
string_recover(l) ==
    IF is_at_end(l) THEN [l |-> l, eof |-> FALSE]
    ELSE LET byte == peek_unchecked(l)
             l1 == advance_unchecked(l)
         IN
         IF byte = DQUOTE THEN [l |-> backtrack_unchecked(l1), eof |-> FALSE]
         ELSE IF byte = BACKSLASH
         THEN IF is_at_end(l1) THEN [l |-> l1, eof |-> TRUE]
              ELSE string_recover(advance_unchecked(l1))
         ELSE string_recover(l1)

\* The main loop of lex_quoted_string.  done is TRUE when the loop returned
\* from the function with r; otherwise the loop was left (by break, or at
\* the end of input) with the lexer l.
RECURSIVE string_body(_)
string_body(l) ==
    IF is_at_end(l) THEN [l |-> l, done |-> FALSE, r |-> Err("-")]
    ELSE LET byte == peek_unchecked(l)
             l1 == advance_unchecked(l)
         IN
         IF byte = DQUOTE
         THEN [l |-> backtrack_unchecked(l1), done |-> FALSE, r |-> Err("-")]
         ELSE IF byte = BACKSLASH
         THEN IF is_at_end(l1)
              THEN [l |-> l1, done |-> TRUE, r |-> UnexpectedEofWhile("LitStr")]
              ELSE LET escaped == peek_unchecked(l1)
                       l2 == advance_unchecked(l1)
                   IN
                   IF escaped \in StringEscapes THEN string_body(l2)
                   ELSE IF escaped = B("x")
                   THEN [l |-> l2, done |-> TRUE,
                         r |-> WithMessage("byte escape sequences are not implemented yet")]
                   ELSE IF is_at_end(l2)
                   THEN [l |-> l2, done |-> TRUE, r |-> UnexpectedEofWhile("LitStr")]
                   ELSE LET rec == string_recover(l2) IN
                        IF rec.eof \/ is_at_end(rec.l)
                        THEN [l |-> rec.l, done |-> TRUE,
                              r |-> UnexpectedEofWhile("LitStr")]
                        ELSE [l |-> advance_unchecked(rec.l), done |-> TRUE,
                              r |-> Err("InvalidEscapeSequence")]
         ELSE string_body(l1)

\* An end of lex_quoted_string that names the wrong literal at the end of
\* the input.
string_close_wrong_kind(l) ==
    IF is_at_end(l) THEN Out(l, UnexpectedEofWhile("LitChar"))
    ELSE IF peek_unchecked(l) # DQUOTE
    THEN Out(advance_unchecked(l), Err("InvalidCharacter"))
    ELSE LET l1 == [l EXCEPT !.start = @ + 1]
             slice == slice_here(l1)
             l2 == advance_unchecked(l1)
         IN Out([l2 EXCEPT !.literal = slice], Ok("LitStr"))

\* An end of lex_quoted_string that forgot to step start over the opening
\* quote.
string_close_with_quote(l) ==
    IF is_at_end(l) THEN Out(l, UnexpectedEofWhile("LitStr"))
    ELSE IF peek_unchecked(l) # DQUOTE
    THEN Out(advance_unchecked(l), Err("InvalidCharacter"))
    ELSE Out([advance_unchecked(l) EXCEPT !.literal = slice_here(l)], Ok("LitStr"))

\* The end of lex_quoted_string: the cursor is expected on the closing quote.
string_close(l) ==
    IF is_at_end(l) THEN Out(l, UnexpectedEofWhile("LitStr"))
    ELSE IF peek_unchecked(l) # DQUOTE
    THEN Out(advance_unchecked(peeked_unchecked(l)), Err("InvalidCharacter"))
    ELSE LET l1 == [peeked_unchecked(l) EXCEPT !.start = @ + 1]
             slice == slice_here(l1)
             l2 == advance_unchecked(l1)
         IN Out([l2 EXCEPT !.literal = slice], Ok("LitStr"))

\* The end of lex_character_literal, likewise.
char_close(l) ==
    IF is_at_end(l) THEN Out(l, UnexpectedEofWhile("LitChar"))
    ELSE IF peek_unchecked(l) # SQUOTE
    THEN Out(advance_unchecked(peeked_unchecked(l)), Err("InvalidCharacter"))
    ELSE LET l1 == [peeked_unchecked(l) EXCEPT !.start = @ + 1]
             slice == slice_here(l1)
             l2 == advance_unchecked(l1)
         IN Out([l2 EXCEPT !.literal = slice], Ok("LitChar"))

lex_quoted_string(l) ==
    IF is_at_end(l) THEN Out(l, UnexpectedEofWhile("LitStr"))
    ELSE LET b == string_body(l) IN
         IF b.done THEN Out(b.l, b.r)
         ELSE string_close(b.l)

\* A character sub-lexer that looks at the byte after an invalid escape
\* without consuming it.
lex_character_literal_peeking(l) ==
    IF is_at_end(l) THEN Out(l, UnexpectedEofWhile("LitChar"))
    ELSE LET byte == peek_unchecked(l) IN
         IF byte = BACKSLASH
         THEN LET escaped == peek_next(l) IN
              IF escaped = None
              THEN Out(advance_unchecked(l), UnexpectedEofWhile("LitChar"))
              ELSE IF escaped \in CharEscapes
              THEN char_close(advance_unchecked(advance_unchecked(l)))
              ELSE IF escaped = B("x")
              THEN Out(l, WithMessage("byte escape sequences are not implemented yet"))
              ELSE LET l2 == advance_unchecked(advance_unchecked(l)) IN
                   IF is_at_end(l2) THEN Out(l2, UnexpectedEofWhile("LitChar"))
                   ELSE IF peek_unchecked(l2) # SQUOTE
                   THEN Out(l2, Err("UnclosedCharLiteral"))
                   ELSE Out(l2, Err("InvalidEscapeSequence"))
         ELSE char_close(advance_unchecked(l))

\* lex_character_literal with the escape arm taken without asking peek_next
\* whether a byte follows the backslash.
lex_character_literal_blind_escape(l) ==
    IF is_at_end(l) THEN Out(l, UnexpectedEofWhile("LitChar"))
    ELSE LET byte == peek_unchecked(l)
             p == peeked_unchecked(l)
         IN
         IF byte = BACKSLASH
         THEN LET escaped == peek_next(p) IN
              IF escaped \in CharEscapes \cup {None}
              THEN char_close(advance_unchecked(advance_unchecked(p)))
              ELSE IF escaped = B("x")
              THEN Out(p, WithMessage("byte escape sequences are not implemented yet"))
              ELSE LET l2 == advance_unchecked(advance_unchecked(p)) IN
                   IF is_at_end(l2) THEN Out(l2, UnexpectedEofWhile("LitChar"))
                   ELSE IF peek_unchecked(l2) # SQUOTE
                   THEN Out(advance_unchecked(l2), Err("UnclosedCharLiteral"))
                   ELSE Out(advance_unchecked(l2), Err("InvalidEscapeSequence"))
         ELSE char_close(advance_unchecked(p))

lex_character_literal(l) ==
    IF is_at_end(l) THEN Out(l, UnexpectedEofWhile("LitChar"))
    ELSE LET byte == peek_unchecked(l)
             p == peeked_unchecked(l)
         IN
         IF byte = BACKSLASH
         THEN LET escaped == peek_next(p) IN
              IF escaped = None
              THEN Out(advance_unchecked(p), UnexpectedEofWhile("LitChar"))
              ELSE IF escaped \in CharEscapes
              THEN char_close(advance_unchecked(advance_unchecked(p)))
              ELSE IF escaped = B("x")
              THEN Out(p, WithMessage("byte escape sequences are not implemented yet"))
              ELSE LET l2 == advance_unchecked(advance_unchecked(p)) IN
                   IF is_at_end(l2) THEN Out(l2, UnexpectedEofWhile("LitChar"))
                   ELSE IF peek_unchecked(l2) # SQUOTE
                   THEN Out(advance_unchecked(l2), Err("UnclosedCharLiteral"))
                   ELSE Out(advance_unchecked(l2), Err("InvalidEscapeSequence"))
         ELSE char_close(advance_unchecked(p))

\* A digit loop that never runs.
digits_tail_none(l) == l

\* The digit loop of lex_dot_after_integer.
RECURSIVE digits_tail(_)
digits_tail(l) ==
    IF is_at_end(l) THEN l
    ELSE LET p == peeked_unchecked(l) IN
         IF is_valid_digit(peek_unchecked(l)) THEN digits_tail(advance_unchecked(p))
         ELSE p

\* A dot handler that, at the end of the input, gives the dot back and
\* returns the integer before it.
lex_dot_after_integer_backtrack(l) ==
    IF is_at_end(l)
    THEN LET l1 == backtrack_unchecked(l) IN
         Out([l1 EXCEPT !.literal = slice_here(l1)], Ok("LitInteger"))
    ELSE LET peeked == peek_unchecked(l) IN
         IF is_valid_digit(peeked)
         THEN LET l1 == digits_tail(advance_unchecked(l)) IN
              Out([l1 EXCEPT !.literal = slice_here(l1)], Ok("LitFloat"))
         ELSE IF is_whitespace(peeked)
         THEN Out(l, WithMessage("lexing whitespace after {integer}. is todo"))
         ELSE IF is_valid_identifier_head(peeked)
         THEN Out(l, WithMessage("lexing method calls on integer literals are todo"))
         ELSE Out(l, UnexpectedEofWhile("LitFloat"))

\* A variant that stores the bytes scanned so far before it refuses a method
\* call on an integer.
lex_dot_after_integer_keep_scanned(l) ==
    IF is_at_end(l) THEN Out(l, UnexpectedEofWhile("LitFloat"))
    ELSE LET peeked == peek_unchecked(l) IN
         IF is_valid_digit(peeked)
         THEN LET l1 == digits_tail(advance_unchecked(l)) IN
              Out([l1 EXCEPT !.literal = slice_here(l1)], Ok("LitFloat"))
         ELSE IF is_whitespace(peeked)
         THEN Out(l, WithMessage("lexing whitespace after {integer}. is todo"))
         ELSE IF is_valid_identifier_head(peeked)
         THEN Out([l EXCEPT !.literal = slice_here(l)],
                  WithMessage("lexing method calls on integer literals are todo"))
         ELSE Out(l, UnexpectedEofWhile("LitFloat"))

\* Entered with the dot consumed.  (The first message is written without
\* the grave accents the code puts around {integer}.)
lex_dot_after_integer(l) ==
    IF is_at_end(l) THEN Out(l, UnexpectedEofWhile("LitFloat"))
    ELSE LET peeked == peek_unchecked(l)
             p == peeked_unchecked(l)
         IN
         IF is_valid_digit(peeked)
         THEN LET l1 == digits_tail(advance_unchecked(p)) IN
              Out([l1 EXCEPT !.literal = slice_here(l1)], Ok("LitFloat"))
         ELSE IF is_whitespace(peeked)
         THEN Out(p, WithMessage("lexing whitespace after {integer}. is todo"))
         ELSE IF is_valid_identifier_head(peeked)
         THEN Out(p, WithMessage("lexing method calls on integer literals are todo"))
         ELSE Out(p, UnexpectedEofWhile("LitFloat"))

\* A digit loop that takes every identifier byte for a digit.
RECURSIVE lex_ambiguous_number_literal_greedy(_)
lex_ambiguous_number_literal_greedy(l) ==
    IF is_at_end(l) THEN Out([l EXCEPT !.literal = slice_here(l)], Ok("LitInteger"))
    ELSE LET byte == peek_unchecked(l) IN
         IF is_valid_identifier_tail(byte)
         THEN lex_ambiguous_number_literal_greedy(advance_unchecked(l))
         ELSE IF byte = DOT THEN lex_dot_after_integer(advance_unchecked(l))
         ELSE Out([l EXCEPT !.literal = slice_here(l)], Ok("LitInteger"))

RECURSIVE lex_ambiguous_number_literal(_)
lex_ambiguous_number_literal(l) ==
    IF is_at_end(l) THEN Out([l EXCEPT !.literal = slice_here(l)], Ok("LitInteger"))
    ELSE LET byte == peek_unchecked(l)
             p == peeked_unchecked(l)
         IN
         IF is_valid_digit(byte) THEN lex_ambiguous_number_literal(advance_unchecked(p))
         ELSE IF byte = DOT THEN lex_dot_after_integer(advance_unchecked(p))
         ELSE Out([p EXCEPT !.literal = slice_here(p)], Ok("LitInteger"))

---------------------------------------------------------------------------
(* The token driver (src/src/lexer.rs).                                    *)

\* Lexer::new
new(source) ==
    [source |-> source, start |-> 0, index |-> 0, literal |-> NoLit,
     line |-> 1, column |-> 0, ub |-> FALSE]

\* match self.peek() { Some(b'=') => { advance; tokEq }, _ => tok }
with_eq(l, tok, tokEq) ==
    IF peek(l) = EQ THEN Out(advance_unchecked(l), Ok(tokEq)) ELSE Out(l, Ok(tok))

\* Shift arms that do not look for the = of a shift-assignment.
with_shift_short(l, self, tok, tokEq, tokSh, tokShEq) ==
    IF peek(l) = EQ THEN Out(advance_unchecked(l), Ok(tokEq))
    ELSE IF peek(l) = self THEN Out(advance_unchecked(l), Ok(tokSh))
    ELSE Out(l, Ok(tok))

\* The b'<' and b'>' arms: self is the arm's own byte.
with_shift(l, self, tok, tokEq, tokSh, tokShEq) ==
    IF peek(l) = EQ THEN Out(advance_unchecked(l), Ok(tokEq))
    ELSE IF peek(l) = self THEN with_eq(advance_unchecked(l), tokSh, tokShEq)
    ELSE Out(l, Ok(tok))

\* The b'-' arm.
after_minus(l) ==
    IF peek(l) = GT THEN Out(advance_unchecked(l), Ok("PuncArrowRight"))
    ELSE IF peek(l) = EQ THEN Out(advance_unchecked(l), Ok("PuncMinusEq"))
    ELSE Out(l, Ok("PuncMinus"))

\* The match on the first byte next, entered with that byte consumed.
dispatch(l, next) ==
    CASE next = DOT -> Out(l, Ok("PuncDot"))
      [] next = COMMA -> Out(l, Ok("PuncComma"))
      [] next = SEMI -> Out(l, Ok("PuncSemi"))
      [] next = COLON -> Out(l, Ok("PuncColon"))
      [] next = PLUS -> with_eq(l, "PuncPlus", "PuncPlusEq")
      [] next = STAR -> with_eq(l, "PuncStar", "PuncStarEq")
      [] next = SLASH -> with_eq(l, "PuncSlash", "PuncSlashEq")
      [] next = MINUS -> after_minus(l)
      [] next = EQ -> with_eq(l, "PuncEq", "PuncEqEq")
      [] next = BANG -> with_eq(l, "PuncBang", "PuncBangEq")
      [] next = LT ->
            with_shift(l, LT, "PuncLt", "PuncLtEq", "PuncShl", "PuncShlEq")
      [] next = GT ->
            with_shift(l, GT, "PuncGt", "PuncGtEq", "PuncShr", "PuncShrEq")
      [] next = LPAREN -> Out(l, Ok("IndentLParen"))
      [] next = RPAREN -> Out(l, Ok("IndentRParen"))
      [] next = LBRACE -> Out(l, Ok("IndentLBrace"))
      [] next = RBRACE -> Out(l, Ok("IndentRBrace"))
      [] next = LBRACKET -> Out(l, Ok("IndentLBracket"))
      [] next = RBRACKET -> Out(l, Ok("IndentRBracket"))
      [] next = DQUOTE -> lex_quoted_string(l)
      [] next = SQUOTE -> lex_character_literal(l)
      [] next = PERCENT -> with_eq(l, "PuncModulo", "PuncModuloEq")
      [] next = AMP -> with_eq(l, "PuncAnd", "PuncAndEq")
      [] next = PIPE -> with_eq(l, "PuncOr", "PuncOrEq")
      [] next = CARET -> with_eq(l, "PuncXor", "PuncXorEq")
      [] OTHER ->
            IF is_valid_digit(next) THEN lex_ambiguous_number_literal(l)
            ELSE IF is_valid_identifier_head(next) THEN lex_identifier(l)
            ELSE Out(l, Err("InvalidCharacter"))

\* An early return that puts the cursor back on the last token.
lex_eof_rewind(l) == Out([l EXCEPT !.index = l.start], Err("Eof"))

\* An early return taken after the token start has been recorded and the
\* literal slot cleared.
lex_eof_after_start(l) == Out([l EXCEPT !.start = l.index, !.literal = NoLit], Err("Eof"))

\* The early return at the end of the significant input.
lex_eof(l) == Out(l, Err("Eof"))

\* A token start that leaves the literal slot as it was.
begin_token_stale(l) == [l EXCEPT !.start = l.index]

\* self.start = self.index; self.literal = None;
begin_token(l) == [l EXCEPT !.start = l.index, !.literal = NoLit]

\* A request that dispatches on the first byte without consuming it.
lex_single_token_unconsumed(l) ==
    LET l0 == skip_whitespace(l) IN
    IF is_at_end(l0) THEN lex_eof(l0)
    ELSE LET l1 == begin_token(l0)
             next == peek_unchecked(l1)
         IN dispatch(l1, next)

lex_single_token(l) ==
    LET l0 == skip_whitespace(l) IN
    IF is_at_end(l0) THEN lex_eof(l0)
    ELSE LET l1 == begin_token(l0)
             next == peek_unchecked(l1)
         IN dispatch(advance_unchecked(l1), next)

\* Iterator::next : self.lex_single_token().ok()
next(l) ==
    LET out == lex_single_token(l) IN
    Out(out.l, IF out.r.ok THEN Ok(out.r.tok) ELSE Err("-"))

\* An extraction that reads the slot without emptying it.
extract_literal_keep(l) ==
    IF l.literal.some THEN Out(l, OkLit(l.literal)) ELSE Out(l, Err("NoLiteralToExtract"))

\* self.literal.take()
extract_literal(l) ==
    IF l.literal.some
    THEN Out([l EXCEPT !.literal = NoLit], OkLit(l.literal))
    ELSE Out(l, Err("NoLiteralToExtract"))

\* #[derive(Clone)] : a field-by-field copy, the literal slot included.
lexer_clone(l) == l

---------------------------------------------------------------------------
(* The safe byte-level operations (src/src/lexer/lexer_impls.rs).  A value *)
(* they return is carried in the field val: a byte, a boolean, or None.    *)

\* Some(v), or a plain v where the code returns no Option
OkVal(v) ==
    [ok |-> TRUE, tok |-> "-", err |-> "-", msg |-> "-", lit |-> NoLit, val |-> v]
\* Option::None
NoVal ==
    [ok |-> FALSE, tok |-> "-", err |-> "-", msg |-> "-", lit |-> NoLit, val |-> None]

advance(l) ==
    IF is_at_end(l) THEN Out(l, NoVal)
    ELSE Out(advance_unchecked(l), OkVal(peek_unchecked(l)))

matches(l, expected) ==
    IF peek(l) = None THEN Out(l, NoVal)
    ELSE IF peek(l) = expected
         THEN Out([l EXCEPT !.index = @ + 1], OkVal(TRUE))
         ELSE Out(l, OkVal(FALSE))

\* A variant that compares peek_default() with expected, so that a 0 matches
\* the end of the input.
matches_default_at_end(l, expected) ==
    IF (IF is_at_end(l) THEN 0 ELSE peek_unchecked(l)) = expected
    THEN Out([l EXCEPT !.index = @ + 1], OkVal(TRUE))
    ELSE Out(l, OkVal(FALSE))

matches_default(l, expected) ==
    IF peek(l) = None THEN Out(l, OkVal(FALSE))
    ELSE IF peek(l) = expected
         THEN Out([l EXCEPT !.index = @ + 1], OkVal(TRUE))
         ELSE Out(l, OkVal(FALSE))

\* The loop of matches_bytes, index bytes of expected having matched.
RECURSIVE matches_bytes_loop(_, _, _)
matches_bytes_loop(l, expected, index) ==
    IF ~is_at_end(l) /\ index < Len(expected)
    THEN IF peek(l) = None THEN Out(l, OkVal(FALSE))
         ELSE IF peek(l) # expected[index + 1] THEN Out(l, OkVal(FALSE))
         ELSE matches_bytes_loop(advance_unchecked(l), expected, index + 1)
    ELSE Out(l, OkVal(TRUE))

matches_bytes(l, expected) == matches_bytes_loop(l, expected, 0)

---------------------------------------------------------------------------
(* Inputs.  A source is the byte sequence of a &str, so it is valid UTF-8. *)

\* All sequences over S of length at most n.
SeqsUpTo(S, n) == UNION {[1..k -> S] : k \in 0..n}

\* The UTF-8 encoding of a code point (what the bytes of a &str are).
Utf8(cp) ==
    IF cp < 128 THEN <<cp>>
    ELSE IF cp < 2048 THEN <<192 + (cp \div 64), 128 + (cp % 64)>>
    ELSE IF cp < 65536
    THEN <<224 + (cp \div 4096), 128 + ((cp \div 64) % 64), 128 + (cp % 64)>>
    ELSE <<240 + (cp \div 262144), 128 + ((cp \div 4096) % 64),
           128 + ((cp \div 64) % 64), 128 + (cp % 64)>>

\* The ASCII code points, and code points that between them use every lead
\* byte and every continuation byte of the multi-byte forms.
CodePoints ==
    (0..191) \cup {k * 64 : k \in 3..31}
    \cup {k * 4096 : k \in 1..15} \cup {2048, 4095, 55295, 57344, 65533, 65535}
    \cup {65536, 262143, 262144, 524288, 786432, 1048576, 1114111}

\* What may precede the first significant byte.
Leaders == {<< >>, <<SP>>, <<LF, TAB>>, <<SLASH, SLASH, B("c"), LF>>}

\* One character, alone or after whitespace or a comment, alone or followed
\* by a letter.
CharSources ==
    {p \o Utf8(cp) \o q : p \in Leaders, cp \in CodePoints, q \in {<< >>, <<B("a")>>}}

\* The reserved words, as test eof_after_all_tokens_no_ub_for_miri lists them.
Keywords ==
    { Str(<<"l","e","t">>), Str(<<"f","n">>), Str(<<"r","e","t","u","r","n">>),
      Str(<<"e","x","t","e","r","n">>), Str(<<"c","o","n","s","t">>),
      Str(<<"m","u","t">>), Str(<<"a","n","y","m","u","t">>),
      Str(<<"c","o","m","p","i","l","e","t","i","m","e">>),
      Str(<<"r","u","n","t","i","m","e">>), Str(<<"s","t","a","t","i","c">>),
      Str(<<"t","y","p","e">>), Str(<<"c","a","s","t">>),
      Str(<<"s","t","r","u","c","t">>), Str(<<"e","n","u","m">>),
      Str(<<"u","n","i","o","n">>), Str(<<"t","r","u","e">>),
      Str(<<"f","a","l","s","e">>), Str(<<"u","n","i","n","i","t">>) }

\* The ASCII upper-case form of a byte sequence.
Upper(s) ==
    [i \in 1..Len(s) |-> IF B("a") <= s[i] /\ s[i] <= B("z") THEN s[i] - 32 ELSE s[i]]

\* s with its first byte in upper case.
Capital(s) == IF s = << >> THEN s ELSE Upper(SubSeq(s, 1, 1)) \o SubSeq(s, 2, Len(s))

\* The prefixes of a byte sequence, the empty one and s itself included.
Prefixes(s) == {SubSeq(s, 1, n) : n \in 0..Len(s)}

MaxExt == 1
ExtBytes == {B("e"), B("n"), B("x"), UNDERSCORE, B("1"), B("T")}
IdentEnds == {<< >>, <<DOT>>, <<SP, B("f")>>}

\* Every prefix of every reserved word, extended by up to MaxExt identifier
\* bytes, and the case variants of the reserved words.
IdentRuns ==
    {p \o e : p \in UNION {Prefixes(k) : k \in Keywords},
              e \in SeqsUpTo(ExtBytes, MaxExt)}
    \cup {Upper(k) : k \in Keywords} \cup {Capital(k) : k \in Keywords}

IdentSources ==
    {p \o r \o q : p \in {<< >>, <<SP>>}, r \in IdentRuns, q \in IdentEnds}

MaxOpTail == 2
PunctBytes ==
    {DOT, COMMA, SEMI, COLON, PLUS, STAR, SLASH, MINUS, EQ, BANG, LT, GT, LPAREN,
     RPAREN, LBRACE, RBRACE, LBRACKET, RBRACKET, PERCENT, AMP, PIPE, CARET}
OpTailBytes == {EQ, LT, GT, MINUS, SLASH, SP, B("a")}

\* A punctuation byte and what may follow it.
OpSources ==
    {p \o <<b>> \o t : p \in {<< >>, <<SP>>}, b \in PunctBytes,
                       t \in SeqsUpTo(OpTailBytes, MaxOpTail)}

MaxBody == 4
BodyBytes == {DQUOTE, SQUOTE, BACKSLASH, B("n"), B("x"), B("m"), LF}

\* An opening quote and what may follow it.
QuotedSources ==
    {<<q>> \o b : q \in {DQUOTE, SQUOTE}, b \in SeqsUpTo(BodyBytes, MaxBody)}

\* A one-character body, and a backslash pair of any ASCII byte, between
\* quotes of either kind, alone or with a byte before the closing quote.
EscapeSources ==
    {<<q>> \o e \o m \o <<q>> :
        q \in {DQUOTE, SQUOTE},
        e \in {<<BACKSLASH, c>> : c \in 0..127} \cup {Utf8(cp) : cp \in CodePoints},
        m \in {<< >>, <<B("a")>>}}

MaxNum == 4
NumBytes == {B("1"), B("9"), DOT, B("f"), SP}

\* A digit and what may follow it.
NumSources == {<<d>> \o t : d \in {ZERO, B("7")}, t \in SeqsUpTo(NumBytes, MaxNum)}

MaxMixed == 4
MixedBytes == {SP, LF, SLASH, B("a"), B("1"), DQUOTE}

\* Short token sequences with whitespace and comments.
MixedSources == SeqsUpTo(MixedBytes, MaxMixed)

MaxPairs == 2
PairBytes == {DQUOTE, SQUOTE, BACKSLASH, B("n"), B("x"), B("m")}

\* A backslash pair.
Pair(c) == <<BACKSLASH, c>>

\* Up to n backslash pairs of bytes of S in a row.
RECURSIVE PairsUpTo(_, _)
PairsUpTo(S, n) ==
    IF n = 0 THEN {<< >>}
    ELSE LET shorter == PairsUpTo(S, n - 1) IN
         shorter \cup {Pair(c) \o t : c \in S, t \in shorter}

\* An opening quote and backslash pairs, left open or closed, with or
\* without text after the closing quote.
PairSources ==
    UNION {{<<q>> \o e \o t :
               e \in PairsUpTo(PairBytes, MaxPairs),
               t \in {<< >>, <<q>>, <<q, B("a")>>, <<B("a"), q, DOT>>}} :
           q \in {DQUOTE, SQUOTE}}

\* A digit run, alone or with a dot, and any one character after it.
NumEndSources ==
    {d \o Utf8(cp) : d \in {<<B("4"), B("2")>>, <<B("4"), DOT>>, <<B("4"), DOT, B("2")>>},
                     cp \in CodePoints}

MaxHex == 2
HexBytes == {B("1"), B("7"), B("F"), B("f")}

\* The hexadecimal and octal spellings of other languages: 0x and 0o, and
\* digits after them.
HexSources ==
    {<<ZERO, r>> \o t : r \in {B("x"), B("X"), B("o")},
                        t \in SeqsUpTo(HexBytes, MaxHex) \ {<< >>}}

Sources ==
    CharSources \cup IdentSources \cup OpSources \cup QuotedSources
    \cup EscapeSources \cup NumSources \cup MixedSources
    \cup PairSources \cup NumEndSources \cup HexSources

MaxCloneLen == 3
CloneBytes == {B("a"), B("1"), DQUOTE, SP}
CloneSources == SeqsUpTo(CloneBytes, MaxCloneLen)

\* Sources and arguments for the byte-level operations.
MaxOpsLen == 3
OpsBytes == {LF, SLASH, B("a"), DQUOTE, B("#")}
OpsSources == SeqsUpTo(OpsBytes, MaxOpsLen)
ExpectedBytes == {LF, B("a")}
ExpectedSeqs == {<< >>, <<B("a")>>, <<B("a"), B("a")>>, <<LF, B("a")>>}

\* Sources of whitespace, comments and slashes.
MaxSkipLen == 4
SkipBytes == {SP, TAB, CR, LF, SLASH, B("a")}
SkipSources == SeqsUpTo(SkipBytes, MaxSkipLen)

---------------------------------------------------------------------------
(* The state machine: one lexer value and the calls made on it.            *)

NoLexer == [source |-> << >>, start |-> -1, index |-> -1, literal |-> NoLit,
            line |-> -1, column |-> -1, ub |-> FALSE]

\* The record of a call: the operation and what it returned.
Ret(op, r) ==
    [op |-> op, ok |-> r.ok, tok |-> r.tok, err |-> r.err, msg |-> r.msg, lit |-> r.lit]

\* What is kept of a lex_single_token call made on l that gave out; stale is
\* the literal slot as the call found it.
Lexed(l, out) ==
    [ok |-> out.r.ok, tok |-> out.r.tok, err |-> out.r.err,
     from |-> skip_whitespace(l).index, to |-> out.l.index, stale |-> l.literal]

InitWith(S) ==
    /\ lexer \in {new(s) : s \in S}
    /\ ret = Ret("new", Err("-"))
    /\ pre = lexer
    /\ lexed = [ok |-> FALSE, tok |-> "-", err |-> "-", from |-> 0, to |-> 0,
                stale |-> NoLit]
    /\ taken = 0
    /\ eofSeen = FALSE
    /\ preEof = FALSE
    /\ clone = NoLexer
    /\ cret = Ret("none", Err("-"))
    /\ shared = NoLit
    /\ sharedTaken = 0
    /\ noneSeen = FALSE
    /\ preNone = FALSE
    /\ results = 0

Init == InitWith(Sources)

\* lexer.lex_single_token()
LexSingleToken ==
    LET out == lex_single_token(lexer) IN
    /\ lexer' = out.l
    /\ ret' = Ret("lex_single_token", out.r)
    /\ pre' = lexer
    /\ lexed' = Lexed(lexer, out)
    /\ taken' = 0
    /\ eofSeen' = (eofSeen \/ out.r.err = "Eof")
    /\ preEof' = eofSeen
    /\ preNone' = noneSeen
    /\ results' = IF out.r.err = "Eof" THEN results ELSE results + 1
    /\ UNCHANGED <<clone, cret, shared, sharedTaken, noneSeen>>

\* Whether a returned literal is the one the two values shared at the clone.
TakesShared(r) == r.ok /\ shared.some /\ r.lit = shared

\* lexer.extract_literal()
ExtractLiteral ==
    LET out == extract_literal(lexer) IN
    /\ lexer' = out.l
    /\ ret' = Ret("extract_literal", out.r)
    /\ pre' = lexer
    /\ taken' = IF taken = 0 THEN 1 ELSE 2
    /\ preEof' = eofSeen
    /\ sharedTaken' = IF TakesShared(out.r) THEN sharedTaken + 1 ELSE sharedTaken
    /\ preNone' = noneSeen
    /\ UNCHANGED <<lexed, eofSeen, clone, cret, shared, noneSeen, results>>

Next == LexSingleToken \/ ExtractLiteral

Spec == Init /\ [][Next]_vars

---------------------------------------------------------------------------
(* Two lexer values: the original and one clone of it.                     *)

InitClone == InitWith(CloneSources)

\* let clone = lexer.clone();
CloneLexer ==
    /\ clone = NoLexer
    /\ clone' = lexer_clone(lexer)
    /\ cret' = Ret("clone", Err("-"))
    /\ shared' = lexer.literal
    /\ sharedTaken' = 0
    /\ UNCHANGED <<lexer, ret, pre, lexed, taken, eofSeen, preEof,
                   noneSeen, preNone, results>>

\* clone.lex_single_token()
CloneLexSingleToken ==
    /\ clone # NoLexer
    /\ LET out == lex_single_token(clone) IN
       /\ clone' = out.l
       /\ cret' = Ret("lex_single_token", out.r)
    /\ UNCHANGED <<lexer, ret, pre, lexed, taken, eofSeen, preEof, shared, sharedTaken,
                   noneSeen, preNone, results>>

\* clone.extract_literal()
CloneExtractLiteral ==
    /\ clone # NoLexer
    /\ LET out == extract_literal(clone) IN
       /\ clone' = out.l
       /\ cret' = Ret("extract_literal", out.r)
       /\ sharedTaken' = IF TakesShared(out.r) THEN sharedTaken + 1 ELSE sharedTaken
    /\ UNCHANGED <<lexer, ret, pre, lexed, taken, eofSeen, preEof, shared,
                   noneSeen, preNone, results>>

NextClone ==
    \/ LexSingleToken
    \/ ExtractLiteral
    \/ CloneLexer
    \/ CloneLexSingleToken
    \/ CloneExtractLiteral

SpecClone == InitClone /\ [][NextClone]_vars

---------------------------------------------------------------------------
(* One lexer value and every safe public operation on it.                  *)

\* The record of a call that takes an argument or returns a plain value.
Call(op, arg, r) ==
    [op |-> op, ok |-> r.ok, tok |-> r.tok, err |-> r.err, msg |-> r.msg,
     lit |-> r.lit, val |-> r.val, arg |-> arg]

InitOps == InitWith(OpsSources)

\* A call on lexer that is neither lex_single_token nor extract_literal
\* leaves what is remembered of those.
ByteLevel ==
    /\ pre' = lexer
    /\ preEof' = eofSeen
    /\ preNone' = noneSeen
    /\ UNCHANGED <<lexed, taken, eofSeen, clone, cret, shared, sharedTaken,
                   noneSeen, results>>

\* lexer.next()
IterNext ==
    LET out == next(lexer)
        lexd == lex_single_token(lexer)
    IN
    /\ lexer' = out.l
    /\ ret' = Ret("next", out.r)
    /\ pre' = lexer
    /\ lexed' = Lexed(lexer, lexd)
    /\ taken' = 0
    /\ eofSeen' = (eofSeen \/ lexd.r.err = "Eof")
    /\ preEof' = eofSeen
    /\ noneSeen' = (noneSeen \/ ~out.r.ok)
    /\ preNone' = noneSeen
    /\ results' = IF lexd.r.err = "Eof" THEN results ELSE results + 1
    /\ UNCHANGED <<clone, cret, shared, sharedTaken>>

\* lexer.skip_whitespace()
SkipWhitespace ==
    /\ lexer' = skip_whitespace(lexer)
    /\ ret' = Ret("skip_whitespace", Ok("-"))
    /\ ByteLevel

\* lexer.advance()
Advance ==
    LET out == advance(lexer) IN
    /\ lexer' = out.l
    /\ ret' = Call("advance", None, out.r)
    /\ ByteLevel

\* lexer.matches(expected)
Matches ==
    \E expected \in ExpectedBytes :
        LET out == matches(lexer, expected) IN
        /\ lexer' = out.l
        /\ ret' = Call("matches", expected, out.r)
        /\ ByteLevel

\* lexer.matches_default(expected)
MatchesDefault ==
    \E expected \in ExpectedBytes \cup {0} :
        LET out == matches_default(lexer, expected) IN
        /\ lexer' = out.l
        /\ ret' = Call("matches_default", expected, out.r)
        /\ ByteLevel

\* lexer.matches_bytes(expected)
MatchesBytes ==
    \E expected \in ExpectedSeqs :
        LET out == matches_bytes(lexer, expected) IN
        /\ lexer' = out.l
        /\ ret' = Call("matches_bytes", expected, out.r)
        /\ ByteLevel

NextOps ==
    \/ LexSingleToken
    \/ ExtractLiteral
    \/ IterNext
    \/ SkipWhitespace
    \/ Advance
    \/ Matches
    \/ MatchesDefault
    \/ MatchesBytes

SpecOps == InitOps /\ [][NextOps]_vars

---------------------------------------------------------------------------
(* The same with the unsafe step back: an advance undone at once.          *)

\* The step is taken while column is under MaxColumn, which keeps the column
\* it may leave too high within bounds.
MaxColumn == 3

\* lexer.advance(); unsafe { lexer.backtrack_unchecked() }
\* The value kept is the byte backtrack_unchecked returns.
AdvanceThenBacktrack ==
    /\ ~is_at_end(lexer)
    /\ lexer.column < MaxColumn
    /\ lexer' = backtrack_unchecked(advance(lexer).l)
    /\ ret' = Call("backtrack_unchecked", None, OkVal(peek_unchecked(lexer)))
    /\ ByteLevel

NextBacktrack ==
    \/ NextOps
    \/ AdvanceThenBacktrack

SpecBacktrack == InitOps /\ [][NextBacktrack]_vars

---------------------------------------------------------------------------
(* skip_whitespace called from any position of an input of whitespace,     *)
(* comments and slashes.                                                   *)

InitSkip == InitWith(SkipSources)

NextSkip ==
    \/ LexSingleToken
    \/ ExtractLiteral
    \/ Advance
    \/ SkipWhitespace

SpecSkip == InitSkip /\ [][NextSkip]_vars

---------------------------------------------------------------------------
(* What the claims are stated in.                                          *)

\* Token::source_repr : the fixed spelling of each token without a payload.
source_repr ==
    [PuncDot |-> Str(<<".">>), PuncComma |-> Str(<<",">>), PuncSemi |-> Str(<<";">>),
     PuncColon |-> Str(<<":">>), PuncArrowRight |-> Str(<<"-", ">">>),
     PuncEq |-> Str(<<"=">>), PuncEqEq |-> Str(<<"=", "=">>),
     PuncBang |-> Str(<<"!">>), PuncBangEq |-> Str(<<"!", "=">>),
     PuncLt |-> Str(<<"<">>), PuncLtEq |-> Str(<<"<", "=">>),
     PuncGt |-> Str(<<">">>), PuncGtEq |-> Str(<<">", "=">>),
     PuncPlus |-> Str(<<"+">>), PuncMinus |-> Str(<<"-">>), PuncStar |-> Str(<<"*">>),
     PuncSlash |-> Str(<<"/">>), PuncModulo |-> Str(<<"%">>), PuncAnd |-> Str(<<"&">>),
     PuncOr |-> Str(<<"|">>), PuncXor |-> Str(<<"^">>),
     PuncShl |-> Str(<<"<", "<">>), PuncShr |-> Str(<<">", ">">>),
     PuncPlusEq |-> Str(<<"+", "=">>), PuncMinusEq |-> Str(<<"-", "=">>),
     PuncStarEq |-> Str(<<"*", "=">>), PuncSlashEq |-> Str(<<"/", "=">>),
     PuncModuloEq |-> Str(<<"%", "=">>), PuncAndEq |-> Str(<<"&", "=">>),
     PuncOrEq |-> Str(<<"|", "=">>), PuncXorEq |-> Str(<<"^", "=">>),
     PuncShlEq |-> Str(<<"<", "<", "=">>), PuncShrEq |-> Str(<<">", ">", "=">>),
     IndentLParen |-> Str(<<"(">>), IndentRParen |-> Str(<<")">>),
     IndentLBrace |-> Str(<<"{">>), IndentRBrace |-> Str(<<"}">>),
     IndentLBracket |-> Str(<<"[">>), IndentRBracket |-> Str(<<"]">>),
     KwLet |-> Str(<<"l","e","t">>), KwFn |-> Str(<<"f","n">>),
     KwReturn |-> Str(<<"r","e","t","u","r","n">>),
     KwExtern |-> Str(<<"e","x","t","e","r","n">>),
     KwConst |-> Str(<<"c","o","n","s","t">>), KwMut |-> Str(<<"m","u","t">>),
     KwAnymut |-> Str(<<"a","n","y","m","u","t">>),
     KwCompiletime |-> Str(<<"c","o","m","p","i","l","e","t","i","m","e">>),
     KwRuntime |-> Str(<<"r","u","n","t","i","m","e">>),
     KwStatic |-> Str(<<"s","t","a","t","i","c">>), KwType |-> Str(<<"t","y","p","e">>),
     KwCast |-> Str(<<"c","a","s","t">>),
     KwAdtStruct |-> Str(<<"s","t","r","u","c","t">>),
     KwAdtEnum |-> Str(<<"e","n","u","m">>), KwAdtUnion |-> Str(<<"u","n","i","o","n">>),
     LitUninit |-> Str(<<"u","n","i","n","i","t">>)]

FixedTokens == DOMAIN source_repr

\* The last call made on lexer was lex_single_token.
JustLexed == ret.op = "lex_single_token"

\* ... and it was the first call that moved a freshly made lexer.
FirstLexed == JustLexed /\ pre = new(lexer.source)

\* ... and it found a significant byte (it did not return Eof).
LexedAToken == JustLexed /\ lexed.from < Len(lexer.source)

\* The first significant byte the last lex_single_token call found.
FirstByte == lexer.source[lexed.from + 1]

\* The bytes of lexer's pending literal.
Pending == Bytes(lexer.source, lexer.literal)

\* Whether the byte sequence s stands in src at offset i.
StandsAt(s, src, i) ==
    /\ i + Len(s) <= Len(src)
    /\ \A k \in 1..Len(s) : src[i + k] = s[k]

---------------------------------------------------------------------------
(* C1: once a lex_single_token request has returned Eof, every later       *)
(* lex_single_token request returns Eof too and leaves index where it was. *)
C1_EofIsFinal ==
    (JustLexed /\ preEof) => (~ret.ok /\ ret.err = "Eof" /\ lexer.index = pre.index)

\* A second Eof, on an input that has a token and trailing whitespace.
C1_Witness ==
    /\ JustLexed /\ preEof /\ ret.err = "Eof"
    /\ lexed.from > 2
    /\ lexer.source[Len(lexer.source)] = LF

(* C2: after lex_single_token returned a literal-carrying token, the first *)
(* extract_literal call returns that token's payload bytes, and every      *)
(* further one before the next token request fails with                    *)
(* NoLiteralToExtract.                                                     *)
PayloadOf(x) ==
    IF x.tok \in {"LitStr", "LitChar"} THEN SomeLit(x.from + 1, x.to - 1)
    ELSE SomeLit(x.from, x.to)

C2_LiteralTakenOnce ==
    (ret.op = "extract_literal" /\ lexed.ok /\ lexed.tok \in LiteralKinds) =>
        IF taken = 1
        THEN /\ ret.ok
             /\ ret.lit.some
             /\ Bytes(lexer.source, ret.lit) = Bytes(lexer.source, PayloadOf(lexed))
        ELSE ~ret.ok /\ ret.err = "NoLiteralToExtract"

\* A second extraction after a string token with a body.
C2_Witness ==
    /\ ret.op = "extract_literal" /\ taken = 2
    /\ lexed.ok /\ lexed.tok = "LitStr" /\ lexed.to - lexed.from > 3
    /\ ret.err = "NoLiteralToExtract"

(* C3: when a lexer holding a pending literal is cloned, extract_literal   *)
(* returns that token's payload at most once over the original and the     *)
(* clone together.                                                         *)
C3_TakenOnceOverClones == sharedTaken <= 1

(* C4: right after lex_single_token returned Ok(t) a literal is pending    *)
(* exactly when t is one of the five literal kinds; after any other token  *)
(* extract_literal fails with NoLiteralToExtract.                          *)
C4_PendingIffLiteralKind ==
    /\ (JustLexed /\ ret.ok) => (lexer.literal.some <=> ret.tok \in LiteralKinds)
    /\ (ret.op = "extract_literal" /\ taken = 1 /\ lexed.ok
            /\ lexed.tok \notin LiteralKinds)
          => (~ret.ok /\ ret.err = "NoLiteralToExtract")

\* A punctuation token lexed while the literal of the token before it was
\* still pending.
C4_Witness ==
    /\ JustLexed /\ ret.ok /\ ret.tok = "PuncDot"
    /\ pre.literal.some /\ ~lexer.literal.some

(* C5: an input that is exactly one reserved word lexes as the keyword     *)
(* token of that word, never as LitIdentifier, and leaves no literal.      *)
C5_ReservedWordsAreKeywords ==
    (FirstLexed /\ lexer.source \in Keywords) =>
        /\ ret.ok
        /\ ret.tok # "LitIdentifier"
        /\ ret.tok \in FixedTokens => source_repr[ret.tok] = lexer.source
        /\ ~lexer.literal.some

(* C6: a maximal run of identifier bytes that starts with a letter or an   *)
(* underscore and is not a reserved word lexes as LitIdentifier, is        *)
(* consumed whole, and is the pending literal.                             *)
IdentByte(b) ==
    b \in (97..122) \cup (65..90) \cup (48..57) \cup {95}

RECURSIVE RunEnd(_, _)
RunEnd(src, i) ==
    IF i < Len(src) /\ IdentByte(src[i + 1]) THEN RunEnd(src, i + 1) ELSE i

\* The maximal identifier run the last lex_single_token call started on.
Run == SubSeq(lexer.source, lexed.from + 1, RunEnd(lexer.source, lexed.from))

C6_OtherRunsAreIdentifiers ==
    (LexedAToken /\ IdentByte(FirstByte) /\ FirstByte \notin 48..57
        /\ Run \notin Keywords)
      => /\ ret.ok /\ ret.tok = "LitIdentifier"
         /\ lexer.index = RunEnd(lexer.source, lexed.from)
         /\ lexer.literal.some
         /\ Pending = Run

\* A reserved word extended by a digit, with more input after it.
C6_Witness ==
    /\ LexedAToken /\ ret.tok = "LitIdentifier"
    /\ Len(Run) > 1
    /\ SubSeq(Run, 1, Len(Run) - 1) \in Keywords
    /\ Run[Len(Run)] = B("1")
    /\ lexer.index < Len(lexer.source)

(* C7: when the first significant byte is a punctuation, operator or       *)
(* bracket byte, lex_single_token returns the token with the longest       *)
(* spelling that stands at that offset and consumes exactly its bytes.     *)
Longest(t) ==
    /\ StandsAt(source_repr[t], lexer.source, lexed.from)
    /\ \A u \in FixedTokens :
          StandsAt(source_repr[u], lexer.source, lexed.from)
            => Len(source_repr[u]) <= Len(source_repr[t])

C7_MaximalMunch ==
    (LexedAToken /\ FirstByte \in PunctBytes) =>
        /\ ret.ok
        /\ ret.tok \in FixedTokens
        /\ Longest(ret.tok)
        /\ lexer.index = lexed.from + Len(source_repr[ret.tok])

\* >> before a byte other than =, which is left unread.
C7_Witness ==
    /\ LexedAToken /\ ret.ok /\ ret.tok = "PuncShr"
    /\ lexer.index < Len(lexer.source)
    /\ lexer.index = lexed.from + 2

(* C8: a request whose first significant byte cannot start a token fails   *)
(* with InvalidCharacter, has consumed that byte alone, and leaves no      *)
(* literal.                                                                *)
InvalidBytes ==
    ((0..31) \ {TAB, LF, CR})
    \cup {B("#"), B("$"), B("?"), B("@"), BACKSLASH, B("grave"), 127}
    \cup (128..255)

C8_InvalidByteAlone ==
    (LexedAToken /\ FirstByte \in InvalidBytes) =>
        /\ ~ret.ok /\ ret.err = "InvalidCharacter"
        /\ lexer.index = lexed.from + 1
        /\ ~lexer.literal.some

\* A byte past ASCII, met after a comment.
C8_Witness ==
    /\ LexedAToken /\ ret.err = "InvalidCharacter"
    /\ FirstByte >= 128
    /\ lexed.from > pre.index + 2
    /\ lexer.index = lexed.from + 1

(* C9: a string that lexes as LitStr has as its literal exactly the bytes  *)
(* between its opening quote and its closing quote, escapes left as they   *)
(* are; a body without quote and backslash put between quotes lexes as     *)
(* LitStr with the body as its literal.                                    *)

\* The offset of the first unescaped quote at or after i (the length of
\* src when there is none).
RECURSIVE ClosingQuote(_, _)
ClosingQuote(src, i) ==
    IF i >= Len(src) THEN Len(src)
    ELSE IF src[i + 1] = DQUOTE THEN i
    ELSE IF src[i + 1] = BACKSLASH THEN ClosingQuote(src, i + 2)
    ELSE ClosingQuote(src, i + 1)

\* src is a quote, a body without quote and backslash, and a quote.
PlainQuoted(src) ==
    /\ Len(src) >= 2
    /\ src[1] = DQUOTE /\ src[Len(src)] = DQUOTE
    /\ \A i \in 2..(Len(src) - 1) : src[i] \notin {DQUOTE, BACKSLASH}

C9_StringLiteralIsInterior ==
    /\ (JustLexed /\ ret.ok /\ ret.tok = "LitStr") =>
          LET close == ClosingQuote(lexer.source, lexed.from + 1) IN
          /\ FirstByte = DQUOTE
          /\ close < Len(lexer.source)
          /\ lexer.index = close + 1
          /\ lexer.literal.some
          /\ Pending = SubSeq(lexer.source, lexed.from + 2, close)
    /\ (FirstLexed /\ PlainQuoted(lexer.source)) =>
          /\ ret.ok /\ ret.tok = "LitStr"
          /\ lexer.literal.some
          /\ Pending = SubSeq(lexer.source, 2, Len(lexer.source) - 1)

\* A string whose body holds an escaped quote and a newline.
C9_Witness ==
    /\ JustLexed /\ ret.ok /\ ret.tok = "LitStr"
    /\ \E i \in 1..Len(Pending) : Pending[i] = LF
    /\ \E i \in 1..(Len(Pending) - 1) : Pending[i] = BACKSLASH /\ Pending[i + 1] = DQUOTE

(* C10: in a string and in a character literal alike, a backslash before   *)
(* any of the seven bytes quote, apostrophe, t, n, r, 0, backslash is a    *)
(* valid escape: the closed literal lexes, with both bytes in its literal. *)
SevenEscapes == {DQUOTE, SQUOTE, B("t"), B("n"), B("r"), ZERO, BACKSLASH}

\* src is one escape pair between two quotes of the kind q.
OneEscape(src, q) ==
    /\ Len(src) = 4
    /\ src[1] = q /\ src[2] = BACKSLASH /\ src[3] \in SevenEscapes /\ src[4] = q

C10_SevenEscapesInBoth ==
    /\ (FirstLexed /\ OneEscape(lexer.source, DQUOTE)) =>
          (ret.ok /\ ret.tok = "LitStr" /\ Pending = SubSeq(lexer.source, 2, 3))
    /\ (FirstLexed /\ OneEscape(lexer.source, SQUOTE)) =>
          (ret.ok /\ ret.tok = "LitChar" /\ Pending = SubSeq(lexer.source, 2, 3))


---------------------------------------------------------------------------
(* Numbers and quoted literals, as the claims read the input.              *)

IsDigit(b) == b \in 48..57

IsIdentHead(b) == b \in (97..122) \cup (65..90) \cup {95}

IsSpace(b) == b \in {SP, TAB, LF, CR}

\* The offset right after the digits that stand at offset i.
RECURSIVE DigitEnd(_, _)
DigitEnd(src, i) ==
    IF i < Len(src) /\ IsDigit(src[i + 1]) THEN DigitEnd(src, i + 1) ELSE i

\* The end of the digit run the last lex_single_token call started on.
IntEnd == DigitEnd(lexer.source, lexed.from)

\* That call started on a digit run.
OnDigits == LexedAToken /\ IsDigit(FirstByte)

\* ... and a dot stands right after the run.
OnDigitsDot ==
    OnDigits /\ IntEnd < Len(lexer.source) /\ lexer.source[IntEnd + 1] = DOT

\* ... and a byte stands right after the dot: it is lexer.source[IntEnd + 2].
OnDigitsDotByte == OnDigitsDot /\ IntEnd + 1 < Len(lexer.source)

\* What a left-to-right reading of a string body from offset i meets first,
\* taking plain bytes and the seven valid escapes as body: the closing
\* quote, the end of the input, a \x escape or an invalid escape.
RECURSIVE StrScan(_, _)
StrScan(src, i) ==
    IF i >= Len(src) THEN [kind |-> "end", at |-> Len(src)]
    ELSE IF src[i + 1] = DQUOTE THEN [kind |-> "quote", at |-> i]
    ELSE IF src[i + 1] # BACKSLASH THEN StrScan(src, i + 1)
    ELSE IF i + 1 >= Len(src) THEN [kind |-> "end", at |-> Len(src)]
    ELSE IF src[i + 2] \in SevenEscapes THEN StrScan(src, i + 2)
    ELSE IF src[i + 2] = B("x") THEN [kind |-> "x", at |-> i]
    ELSE [kind |-> "invalid", at |-> i]

\* The last lex_single_token call started on an opening quote of a string
\* (of a character literal).
OnString == LexedAToken /\ FirstByte = DQUOTE
OnChar == LexedAToken /\ FirstByte = SQUOTE

\* The body of the character literal starts with a backslash pair; the
\* escaped byte is lexer.source[lexed.from + 3].
OnCharEscape ==
    /\ OnChar
    /\ lexed.from + 2 < Len(lexer.source)
    /\ lexer.source[lexed.from + 2] = BACKSLASH

(* C11: a \x escape in a string or character literal, a digit run followed *)
(* by a dot and a whitespace byte, and a digit run followed by a dot and   *)
(* an identifier head each fail with WithMessage, and nothing else does.   *)
Unimplemented ==
    \/ OnString /\ StrScan(lexer.source, lexed.from + 1).kind = "x"
    \/ OnCharEscape /\ lexer.source[lexed.from + 3] = B("x")
    \/ OnDigitsDotByte /\ IsSpace(lexer.source[IntEnd + 2])
    \/ OnDigitsDotByte /\ IsIdentHead(lexer.source[IntEnd + 2])

C11_WithMessageIffUnimplemented ==
    JustLexed => ((~ret.ok /\ ret.err = "WithMessage") <=> Unimplemented)

(* C12: a hexadecimal or octal spelling such as 0x1F fails as not yet      *)
(* supported instead of lexing as tokens.                                  *)
HexDigits == (48..57) \cup (65..70) \cup (97..102)

C12_HexIsRefused ==
    (FirstLexed /\ Len(lexer.source) >= 3
        /\ lexer.source[1] = ZERO
        /\ lexer.source[2] \in {B("x"), B("o")}
        /\ lexer.source[3] \in HexDigits)
      => (~ret.ok /\ ret.err = "WithMessage")

(* C13: a maximal digit run that is followed by the end of the input or by *)
(* a byte other than a dot lexes as LitInteger, its literal is the run,    *)
(* and index is right after the last digit, where the next token starts.   *)
C13_DigitRunIsInteger ==
    /\ (OnDigits /\ ~OnDigitsDot) =>
          /\ ret.ok /\ ret.tok = "LitInteger"
          /\ lexer.index = IntEnd
          /\ lexer.literal.some
          /\ Pending = SubSeq(lexer.source, lexed.from + 1, IntEnd)
    /\ (LexedAToken /\ pre.index > pre.start
            /\ IsDigit(lexer.source[pre.start + 1])
            /\ DigitEnd(lexer.source, pre.start) = pre.index
            /\ pre.index < Len(lexer.source)
            /\ IsIdentHead(lexer.source[pre.index + 1]))
          => (ret.ok /\ lexed.from = pre.index)

\* Two digits and a letter right after them.
C13_Witness ==
    /\ OnDigits /\ ret.ok /\ ret.tok = "LitInteger"
    /\ lexer.index >= lexed.from + 2
    /\ lexer.index < Len(lexer.source)
    /\ lexer.source[lexer.index + 1] = B("f")


(* C14: a digit run, a dot and at least one digit lex as one LitFloat      *)
(* whose literal is the whole span; the scan stops at the first byte that  *)
(* is not a digit, so a dot right after the fraction is the next token,    *)
(* PuncDot.                                                                *)

\* The end of the fraction digits, when a dot stands at offset IntEnd.
FracEnd == DigitEnd(lexer.source, IntEnd + 1)

\* The bytes from offset a up to offset b are digits, a dot and digits,
\* and no digit follows them.
IsFloatSpan(src, a, b) ==
    /\ a < b /\ b <= Len(src)
    /\ IsDigit(src[a + 1])
    /\ LET e == DigitEnd(src, a) IN
       /\ e + 1 < b
       /\ src[e + 1] = DOT
       /\ DigitEnd(src, e + 1) = b

C14_DigitsDotDigitsIsFloat ==
    /\ (OnDigitsDotByte /\ IsDigit(lexer.source[IntEnd + 2])) =>
          /\ ret.ok /\ ret.tok = "LitFloat"
          /\ lexer.index = FracEnd
          /\ lexer.literal.some
          /\ Pending = SubSeq(lexer.source, lexed.from + 1, FracEnd)
    /\ (JustLexed /\ IsFloatSpan(lexer.source, pre.start, pre.index)
            /\ pre.index < Len(lexer.source)
            /\ lexer.source[pre.index + 1] = DOT)
          => /\ ret.ok /\ ret.tok = "PuncDot"
             /\ lexed.from = pre.index
             /\ lexer.index = pre.index + 1

\* The dot after a float with two fraction digits, lexed on its own.
C14_Witness ==
    /\ JustLexed /\ ret.ok /\ ret.tok = "PuncDot"
    /\ IsFloatSpan(lexer.source, pre.start, pre.index)
    /\ pre.index - DigitEnd(lexer.source, pre.start) > 2
    /\ lexed.from = pre.index

(* C15: a digit run right before a dot never lexes as LitInteger: it is a  *)
(* LitFloat when a digit follows the dot and a failure otherwise; when the *)
(* dot ends the input the failure is UnexpectedEofWhile(LitFloat), index   *)
(* is the end of the input, and the next request returns Eof.              *)
C15_DotAfterDigitsIsNoInteger ==
    /\ OnDigitsDot =>
          /\ ~(ret.ok /\ ret.tok = "LitInteger")
          /\ IF OnDigitsDotByte /\ IsDigit(lexer.source[IntEnd + 2])
             THEN ret.ok /\ ret.tok = "LitFloat"
             ELSE ~ret.ok
          /\ (IntEnd + 1 = Len(lexer.source)) =>
                /\ ret.err = "UnexpectedEofWhile" /\ ret.tok = "LitFloat"
                /\ lexer.index = Len(lexer.source)
    /\ (JustLexed /\ pre.index = Len(lexer.source) /\ pre.index > pre.start + 1
            /\ IsDigit(lexer.source[pre.start + 1])
            /\ DigitEnd(lexer.source, pre.start) = pre.index - 1
            /\ lexer.source[pre.index] = DOT)
          => (~ret.ok /\ ret.err = "Eof" /\ lexer.index = pre.index)

\* The request after a failure on a dot that ends the input.
C15_Witness ==
    /\ JustLexed /\ ret.err = "Eof" /\ ~preEof
    /\ pre.index = Len(lexer.source) /\ pre.index > pre.start + 2
    /\ IsDigit(lexer.source[pre.start + 1])
    /\ DigitEnd(lexer.source, pre.start) = pre.index - 1
    /\ lexer.source[pre.index] = DOT

(* C16: whenever lex_single_token returns UnexpectedEofWhile, the input    *)
(* has ended: index is the length of the source.                           *)
C16_UnexpectedEofIsAtEnd ==
    (JustLexed /\ ~ret.ok /\ ret.err = "UnexpectedEofWhile")
      => lexer.index = Len(lexer.source)


(* C17: when the body of a character literal starts with an invalid escape *)
(* (a backslash before a byte that is neither one of the seven escapes nor *)
(* x), the request consumes the quote, the backslash, the escaped byte and *)
(* at most one byte more: it fails with InvalidEscapeSequence when that    *)
(* byte is the closing quote, with UnclosedCharLiteral when it is another  *)
(* byte, with UnexpectedEofWhile(LitChar) when the input ends there.       *)
OnCharInvalidEscape ==
    OnCharEscape /\ lexer.source[lexed.from + 3] \notin SevenEscapes \cup {B("x")}

C17_CharInvalidEscape ==
    OnCharInvalidEscape =>
        /\ ~ret.ok
        /\ ~lexer.literal.some
        /\ IF lexed.from + 3 = Len(lexer.source)
           THEN /\ ret.err = "UnexpectedEofWhile" /\ ret.tok = "LitChar"
                /\ lexer.index = lexed.from + 3
           ELSE /\ lexer.index = lexed.from + 4
                /\ ret.err = IF lexer.source[lexed.from + 4] = SQUOTE
                             THEN "InvalidEscapeSequence"
                             ELSE "UnclosedCharLiteral"

\* An unclosed one with input left after the byte that should have closed it.
C17_Witness ==
    /\ OnCharInvalidEscape
    /\ ret.err = "UnclosedCharLiteral"
    /\ lexer.index = lexed.from + 4
    /\ lexer.index < Len(lexer.source)

(* C18 as stated: a string that holds an invalid escape and has an         *)
(* unescaped closing quote after it fails with InvalidEscapeSequence and   *)
(* leaves index right after that closing quote.                            *)

\* Some backslash pair of the body that starts at offset i, read pair by
\* pair up to the first unescaped quote, is an invalid escape.
RECURSIVE HasInvalidEscape(_, _)
HasInvalidEscape(src, i) ==
    IF i >= Len(src) \/ src[i + 1] = DQUOTE THEN FALSE
    ELSE IF src[i + 1] # BACKSLASH THEN HasInvalidEscape(src, i + 1)
    ELSE IF i + 1 >= Len(src) THEN FALSE
    ELSE \/ src[i + 2] \notin SevenEscapes \cup {B("x")}
         \/ HasInvalidEscape(src, i + 2)

\* The closing quote of the string the last call started on.
Closing == ClosingQuote(lexer.source, lexed.from + 1)

C18_AnyInvalidEscapeRecovers ==
    (OnString /\ HasInvalidEscape(lexer.source, lexed.from + 1)
        /\ Closing < Len(lexer.source))
      => (~ret.ok /\ ret.err = "InvalidEscapeSequence" /\ lexer.index = Closing + 1)

(* C18, amended: a string in which an invalid escape is met before any \x  *)
(* escape and that has an unescaped closing quote after it fails with      *)
(* InvalidEscapeSequence and leaves index right after that closing quote,  *)
(* with no literal pending.                                                *)
C18_FirstInvalidEscapeRecovers ==
    (OnString /\ StrScan(lexer.source, lexed.from + 1).kind = "invalid"
        /\ Closing < Len(lexer.source))
      => /\ ~ret.ok /\ ret.err = "InvalidEscapeSequence"
         /\ lexer.index = Closing + 1
         /\ ~lexer.literal.some

\* An invalid escape, an escaped quote after it, the closing quote and text
\* after the string.
C18_Witness ==
    /\ OnString /\ ret.err = "InvalidEscapeSequence"
    /\ StrScan(lexer.source, lexed.from + 1).kind = "invalid"
    /\ Closing >= StrScan(lexer.source, lexed.from + 1).at + 4
    /\ lexer.source[Closing] = DQUOTE
    /\ lexer.index = Closing + 1
    /\ lexer.index < Len(lexer.source)

(* C19: a string without \x whose closing quote never comes, and a         *)
(* character literal of one plain byte or one valid escape whose closing   *)
(* quote never comes, fail with UnexpectedEofWhile(LitStr) and             *)
(* UnexpectedEofWhile(LitChar); index is the end of the input and the next *)
(* request returns Eof.                                                    *)

\* Some backslash pair of the body that starts at offset i is \x.
RECURSIVE HasByteEscape(_, _)
HasByteEscape(src, i) ==
    IF i >= Len(src) THEN FALSE
    ELSE IF src[i + 1] # BACKSLASH THEN HasByteEscape(src, i + 1)
    ELSE IF i + 1 >= Len(src) THEN FALSE
    ELSE src[i + 2] = B("x") \/ HasByteEscape(src, i + 2)

\* src opens a string at offset i and never closes it.
OpenString(src, i) ==
    /\ i < Len(src) /\ src[i + 1] = DQUOTE
    /\ ClosingQuote(src, i + 1) = Len(src)
    /\ ~HasByteEscape(src, i + 1)

\* The offset right after the one-character body of the character literal
\* that src opens at offset i (-1 when there is no such body).
CharBodyEnd(src, i) ==
    IF i + 1 >= Len(src) \/ src[i + 1] # SQUOTE THEN -1
    ELSE IF src[i + 2] # BACKSLASH THEN i + 2
    ELSE IF i + 2 < Len(src) /\ src[i + 3] \in SevenEscapes THEN i + 3
    ELSE -1

\* src opens a character literal at offset i and ends after its body.
OpenChar(src, i) == CharBodyEnd(src, i) = Len(src)

C19_UnterminatedLiteral ==
    /\ (LexedAToken /\ OpenString(lexer.source, lexed.from)) =>
          /\ ret.err = "UnexpectedEofWhile" /\ ret.tok = "LitStr"
          /\ lexer.index = Len(lexer.source)
    /\ (LexedAToken /\ OpenChar(lexer.source, lexed.from)) =>
          /\ ret.err = "UnexpectedEofWhile" /\ ret.tok = "LitChar"
          /\ lexer.index = Len(lexer.source)
    /\ (JustLexed /\ pre.index = Len(lexer.source) /\ pre.start >= 0
            /\ (OpenString(lexer.source, pre.start) \/ OpenChar(lexer.source, pre.start)))
          => (~ret.ok /\ ret.err = "Eof" /\ lexer.index = pre.index)

\* The request after an unterminated string that holds an invalid escape.
C19_Witness ==
    /\ JustLexed /\ ret.err = "Eof" /\ ~preEof
    /\ pre.index = Len(lexer.source)
    /\ OpenString(lexer.source, pre.start)
    /\ HasInvalidEscape(lexer.source, pre.start + 1)

(* C20: a character literal whose body, one plain byte or one valid        *)
(* escape, is followed by a byte that is not the closing quote fails with  *)
(* InvalidCharacter, having consumed the quote, the body and that byte.    *)
C20_CharBodyThenOther ==
    LET end == CharBodyEnd(lexer.source, lexed.from) IN
    (LexedAToken /\ end >= 0 /\ end < Len(lexer.source)
        /\ lexer.source[end + 1] # SQUOTE)
      => /\ ~ret.ok /\ ret.err = "InvalidCharacter"
         /\ lexer.index = end + 1
         /\ ~lexer.literal.some


---------------------------------------------------------------------------
(* The sequence adapter, the position invariant and the pending literal.   *)

\* The last call was next().
JustNext == ret.op = "next"

\* C21: once next() has returned None on a lexer, whether for Eof or for an
\* error, every later next() on that lexer returns None as well.
C21_NoneIsFinal == (JustNext /\ preNone) => ~ret.ok

\* C22: in every state reached from Lexer::new by the safe public operations
\* (lex_single_token, skip_whitespace, advance, matches, matches_default,
\* matches_bytes, extract_literal, next), start <= index <= len(source).
C22_StartIndexLen ==
    /\ lexer.start <= lexer.index
    /\ lexer.index <= Len(lexer.source)

\* A string literal has been lexed (start moved past its opening quote) and
\* matches_bytes has then consumed the rest of the input.
C22_Witness ==
    /\ ret.op = "matches_bytes"
    /\ ret.val = TRUE
    /\ lexer.index > pre.index
    /\ lexer.index = Len(lexer.source)
    /\ lexed.ok /\ lexed.tok = "LitStr"
    /\ lexer.start > 0

\* C23: a literal pending after a lex_single_token call is a range inside
\* source[start..index]; after an identifier, integer or float token it is
\* source[start..index], after a string or character token it is
\* source[start..index-1], the closing quote left out.
C23_LiteralInsideLexeme ==
    (JustLexed /\ lexer.literal.some) =>
        /\ lexer.start <= lexer.literal.lo
        /\ lexer.literal.lo <= lexer.literal.hi
        /\ lexer.literal.hi <= lexer.index
        /\ (ret.ok /\ ret.tok \in {"LitIdentifier", "LitInteger", "LitFloat"})
              => lexer.literal = SomeLit(lexer.start, lexer.index)
        /\ (ret.ok /\ ret.tok \in {"LitStr", "LitChar"})
              => lexer.literal = SomeLit(lexer.start, lexer.index - 1)

\* A string token with a body of two bytes or more and input after it.
C23_Witness ==
    /\ JustLexed /\ ret.ok /\ ret.tok = "LitStr"
    /\ lexer.literal.some
    /\ lexer.literal.hi - lexer.literal.lo >= 2
    /\ lexer.literal = SomeLit(lexer.start, lexer.index - 1)
    /\ lexer.index < Len(lexer.source)

\* C24: after a lex_single_token call that returned a token or an error other
\* than Eof, start is the offset of the first significant byte after the
\* skipped whitespace and comments (the opening quote of a string or
\* character literal), so that source[start..index] is the lexeme.
C24_StartIsFirstByte ==
    (JustLexed /\ ret.err # "Eof") => lexer.start = lexed.from

\* C25: after lex_single_token returned an error other than Eof no literal is
\* pending, however much of a literal had been scanned: the first
\* extract_literal call fails with NoLiteralToExtract.
C25_NoLiteralAfterError ==
    /\ (JustLexed /\ ~ret.ok /\ ret.err # "Eof") => ~lexer.literal.some
    /\ (ret.op = "extract_literal" /\ taken = 1 /\ ~lexed.ok /\ lexed.err # "Eof")
          => (~ret.ok /\ ret.err = "NoLiteralToExtract")

\* An extraction after a request that failed with WithMessage two bytes or
\* more into a literal, later in the input than its first token.
C25_Witness ==
    /\ ret.op = "extract_literal" /\ taken = 1
    /\ ~lexed.ok /\ lexed.err = "WithMessage"
    /\ lexed.to - lexed.from >= 2
    /\ lexed.from > 0
    /\ ret.err = "NoLiteralToExtract"

\* The literal that was left unextracted when the last lex_single_token call
\* began is the one pending now, or the one the first extraction gave.
StaleLiteralKept ==
    \/ JustLexed /\ pre.literal.some /\ lexer.literal = pre.literal
    \/ /\ ret.op = "extract_literal" /\ taken = 1
       /\ lexed.stale.some /\ ret.ok /\ ret.lit = lexed.stale

\* C26: if the payload of a literal token is not extracted and
\* lex_single_token is called again, then whatever that call returns,
\* extract_literal does not return the earlier token's payload.
C26_StaleLiteralGone == ~StaleLiteralKept

---------------------------------------------------------------------------
(* The cursor: advance, backtrack and skip_whitespace.                     *)

\* The column of a lexer that stands at the start of line 1.
StartOfLineColumn(source) == new(source).column

\* C27: advance returns the byte at index and adds one to index; over a
\* newline it adds one to line and resets column to the start-of-line value,
\* the column a freshly created lexer has at the start of line 1; over any
\* other byte it adds one to column and leaves line alone.
C27_AdvanceTracksPosition ==
    (ret.op = "advance" /\ ~is_at_end(pre)) =>
        /\ ret.ok
        /\ ret.val = pre.source[pre.index + 1]
        /\ lexer.index = pre.index + 1
        /\ IF ret.val = LF
           THEN /\ lexer.line = pre.line + 1
                /\ lexer.column = StartOfLineColumn(lexer.source)
           ELSE /\ lexer.line = pre.line
                /\ lexer.column = pre.column + 1

\* C28: from a state not at the end of the input, advance followed by
\* backtrack leaves index, line and column as they were before the advance,
\* over a newline and over any other byte.
C28_BacktrackRestores ==
    ret.op = "backtrack_unchecked" =>
        /\ lexer.index = pre.index
        /\ lexer.line = pre.line
        /\ lexer.column = pre.column

\* Two slashes stand at offset i of src.
BeginsComment(src, i) ==
    i + 2 <= Len(src) /\ src[i + 1] = SLASH /\ src[i + 2] = SLASH

\* The offset of the first newline at or after offset i, or the length of src.
RECURSIVE CommentEnd(_, _)
CommentEnd(src, i) ==
    IF i >= Len(src) \/ src[i + 1] = LF THEN i ELSE CommentEnd(src, i + 1)

\* source[a..b] is made of whitespace bytes and of whole comments, each one
\* running from its two slashes up to its newline or the end of the input.
RECURSIVE OnlySkippable(_, _, _)
OnlySkippable(src, a, b) ==
    IF a >= b THEN a = b
    ELSE IF IsSpace(src[a + 1]) THEN OnlySkippable(src, a + 1, b)
    ELSE IF BeginsComment(src, a)
    THEN CommentEnd(src, a + 2) <= b /\ OnlySkippable(src, CommentEnd(src, a + 2), b)
    ELSE FALSE

\* C29: skip_whitespace, which returns nothing and so cannot fail, ends at the
\* end of the input or at a byte that is not a space, tab, CR or LF and does
\* not begin two slashes; what it consumes is whitespace and whole comments
\* only, a comment's newline not being part of the comment; start and the
\* pending literal are left as they were.
C29_SkipWhitespaceStops ==
    ret.op = "skip_whitespace" =>
        /\ \/ lexer.index = Len(lexer.source)
           \/ /\ lexer.index < Len(lexer.source)
              /\ ~IsSpace(lexer.source[lexer.index + 1])
              /\ ~BeginsComment(lexer.source, lexer.index)
        /\ pre.index <= lexer.index
        /\ OnlySkippable(lexer.source, pre.index, lexer.index)
        /\ lexer.start = pre.start
        /\ lexer.literal = pre.literal

\* With a literal pending, a comment is skipped and then the newline that
\* ends it.
C29_Witness ==
    /\ ret.op = "skip_whitespace"
    /\ pre.literal.some /\ lexer.literal = pre.literal
    /\ BeginsComment(lexer.source, pre.index)
    /\ lexer.index > CommentEnd(lexer.source, pre.index)

\* C30: every lex_single_token call that returns anything other than Eof,
\* token or error, leaves index greater than it found it, so a driver that
\* goes on after errors has had at most len(source) results other than Eof
\* when Eof comes.
C30_EveryResultConsumes ==
    /\ (JustLexed /\ ret.err # "Eof") => lexer.index > pre.index
    /\ results <= lexer.index
    /\ results <= Len(lexer.source)

\* Eof after as many results as the source has bytes, three or more, one of
\* them an error.
C30_Witness ==
    /\ JustLexed /\ ret.err = "Eof"
    /\ results = Len(lexer.source)
    /\ results >= 3
    /\ lexer.source[1] \in InvalidBytes


----------------------------------------------------------------------------
\* C31: whatever the input and however many lex_single_token calls are made,
\* no unchecked primitive runs with its precondition broken: no byte is read
\* at an offset that is not in the source, advance_unchecked and
\* peek_unchecked never run at the end of the input, backtrack_unchecked
\* never runs with index 0, and so index never passes len(source).
C31_UncheckedPreconditionsHold ==
    /\ ~lexer.ub
    /\ lexer.index <= Len(lexer.source)

\* A call that had to stop because the input ended right after the backslash
\* of a character literal.
C31_Witness ==
    /\ JustLexed
    /\ ret.err = "UnexpectedEofWhile" /\ ret.tok = "LitChar"
    /\ is_at_end(lexer)
    /\ lexer.source[lexer.index] = BACKSLASH
    /\ ~lexer.ub


---------------------------------------------------------------------------
(* The checked cursor primitives (src/src/lexer/lexer_impls.rs), called    *)
(* from any position of a short input.                                     *)

\* peek() as a call: Option<u8>, the lexer untouched (&self).
peek_call(l) == IF is_at_end(l) THEN Out(l, NoVal) ELSE Out(l, OkVal(peek_unchecked(l)))

peek_default(l) ==
    IF is_at_end(l) THEN Out(l, OkVal(0)) ELSE Out(peeked_unchecked(l), OkVal(peek_unchecked(l)))

\* advance_default without the test for the end of the input.
advance_default_unguarded(l) == Out(advance_unchecked(l), OkVal(peek_unchecked(l)))

advance_default(l) ==
    IF is_at_end(l) THEN Out(l, OkVal(0))
    ELSE Out(advance_unchecked(l), OkVal(peek_unchecked(l)))

\* Precondition: ~is_at_end(l).
matches_unchecked(l, expected) ==
    LET byte == peek_unchecked(l)
        p == peeked_unchecked(l)
    IN
    IF byte = expected THEN Out(advance_unchecked(p), OkVal(TRUE))
    ELSE Out(p, OkVal(FALSE))

\* Sources with a zero byte and a newline among their bytes.
MaxCursorLen == 3
CursorBytes == {0, LF, B("a")}
CursorSources == SeqsUpTo(CursorBytes, MaxCursorLen)

InitCursor == InitWith(CursorSources)

\* lexer.peek()
Peek ==
    LET out == peek_call(lexer) IN
    /\ lexer' = out.l
    /\ ret' = Call("peek", None, out.r)
    /\ ByteLevel

\* lexer.peek_default()
PeekDefault ==
    LET out == peek_default(lexer) IN
    /\ lexer' = out.l
    /\ ret' = Call("peek_default", None, out.r)
    /\ ByteLevel

\* lexer.advance_default()
AdvanceDefault ==
    LET out == advance_default(lexer) IN
    /\ lexer' = out.l
    /\ ret' = Call("advance_default", None, out.r)
    /\ ByteLevel

\* let p = lexer.peek(); let a = lexer.advance();
\* What is kept is a, with p as arg.
PeekThenAdvance ==
    LET p == peek_call(lexer)
        out == advance(p.l)
    IN
    /\ lexer' = out.l
    /\ ret' = Call("peek_then_advance", p.r.val, out.r)
    /\ ByteLevel

NextCursor ==
    \/ Peek
    \/ PeekDefault
    \/ Advance
    \/ AdvanceDefault
    \/ PeekThenAdvance

SpecCursor == InitCursor /\ [][NextCursor]_vars

----------------------------------------------------------------------------
\* C32: at the end of the input peek and advance return None, peek_default
\* and advance_default return 0, and index, line and column stay as they
\* were; before the end peek returns the byte at index and changes nothing,
\* and an advance that follows it returns that same byte.
C32_CheckedCursorPrimitives ==
    LET atEnd == is_at_end(pre)
        same == lexer = pre
    IN
    /\ (ret.op \in {"peek", "advance", "peek_then_advance"} /\ atEnd)
           => (~ret.ok /\ ret.val = None /\ same)
    /\ (ret.op \in {"peek_default", "advance_default"} /\ atEnd)
           => (ret.val = 0 /\ same)
    /\ (ret.op = "peek" /\ ~atEnd)
           => (ret.ok /\ ret.val = pre.source[pre.index + 1] /\ same)
    /\ (ret.op = "peek_then_advance" /\ ~atEnd)
           => (ret.ok /\ ret.val = ret.arg /\ ret.val = pre.source[pre.index + 1])

\* advance_default called at the end of an input that has been read through.
C32_Witness ==
    /\ ret.op = "advance_default"
    /\ is_at_end(pre) /\ pre.index >= 2
    /\ ret.val = 0 /\ lexer = pre


----------------------------------------------------------------------------
\* C33: matches(b) consumes the next byte exactly when it equals b: on a
\* match it returns Some(true) and leaves the lexer as advance, and as
\* matches_unchecked, would from the same state; on a mismatch it returns
\* Some(false), at the end of the input None, and the lexer is as it was.
C33_MatchesConsumesLikeAdvance ==
    ret.op = "matches" =>
        IF is_at_end(pre) THEN ~ret.ok /\ ret.val = None /\ lexer = pre
        ELSE IF pre.source[pre.index + 1] # ret.arg
        THEN ret.ok /\ ret.val = FALSE /\ lexer = pre
        ELSE /\ ret.ok /\ ret.val = TRUE
             /\ lexer = advance(pre).l
             /\ lexer = matches_unchecked(pre, ret.arg).l


----------------------------------------------------------------------------
\* C34: matches_bytes(seq) returns true exactly when the unread input starts
\* with the whole of seq, and has then consumed len(seq) bytes; it does not
\* return true when the input ends before all of seq has matched.
C34_MatchesBytesWholeSequence ==
    ret.op = "matches_bytes" =>
        LET unread == SubSeq(pre.source, pre.index + 1, Len(pre.source))
            starts == /\ Len(ret.arg) <= Len(unread)
                      /\ SubSeq(unread, 1, Len(ret.arg)) = ret.arg
        IN
        /\ ret.val = starts
        /\ ret.val => lexer.index = pre.index + Len(ret.arg)


----------------------------------------------------------------------------
\* The number of newline bytes among the first n bytes of s.
RECURSIVE Newlines(_, _)
Newlines(s, n) ==
    IF n = 0 THEN 0
    ELSE Newlines(s, n - 1) + (IF s[n] = LF THEN 1 ELSE 0)

\* C35: after any sequence of lex_single_token calls on any input, failed
\* calls and newlines inside string literals and comments included, line is
\* 1 plus the number of newline bytes in source[0..index].
C35_LineCountsNewlines ==
    lexer.line = 1 + Newlines(lexer.source, lexer.index)

\* A string literal with a newline in it has been lexed.
C35_Witness ==
    /\ JustLexed /\ ret.ok /\ ret.tok = "LitStr"
    /\ \E i \in lexer.literal.lo + 1 .. lexer.literal.hi : lexer.source[i] = LF
    /\ lexer.line >= 2


----------------------------------------------------------------------------
\* C36: column counts the bytes consumed on the current line: on an input
\* with no newline in it, after any sequence of lex_single_token calls,
\* string literals among the tokens included, column equals index.
C36_ColumnIsIndexOnOneLine ==
    (\A i \in 1 .. Len(lexer.source) : lexer.source[i] # LF)
        => lexer.column = lexer.index


----------------------------------------------------------------------------
\* C37: a lex_single_token call that returns Eof leaves start and the
\* pending literal slot as they were before the call; it changes nothing
\* but index, line and column, and those only as skipping the trailing
\* whitespace and comments does.
C37_EofKeepsStartAndLiteral ==
    (JustLexed /\ ret.err = "Eof") =>
        /\ lexer.start = pre.start
        /\ lexer.literal = pre.literal
        /\ lexer = [pre EXCEPT !.index = lexer.index, !.line = lexer.line,
                               !.column = lexer.column]
        /\ lexer = skip_whitespace(pre)
        /\ lexer.index >= pre.index

\* Eof returned past trailing whitespace or a comment, with a literal still
\* pending from the token before.
C37_Witness ==
    /\ JustLexed /\ ret.err = "Eof"
    /\ pre.literal.some
    /\ lexer.index > pre.index
    /\ pre.start < pre.index


----------------------------------------------------------------------------
\* C38: the body byte of a character literal is never the unescaped closing
\* quote: no lex_single_token call returns LitChar with a pending literal
\* that is the single byte ' (three quotes in a row are not a character
\* literal).
C38_QuoteIsNoCharBody ==
    (JustLexed /\ ret.ok /\ ret.tok = "LitChar") => Pending # <<SQUOTE>>

=============================================================================
